---- MODULE Spec2Model ----
(***************************************************************************)
(* A model of optionsdict.py: the OptionsDict container (dynamic entries,  *)
(* name-concatenating merge, template expansion), the CallableEntry        *)
(* wrapper and create_sequence.                                            *)
(*                                                                         *)
(* Python objects live in `heap` (object identity = heap index).  Strings  *)
(* are sequences of one-character strings, so that concatenation, joining  *)
(* and template scanning are computed rather than assumed.  Python values  *)
(* are tagged records.  dict.__init__, dict.update and copy() are taken to *)
(* copy the stored values (they do not go through the overridden           *)
(* __getitem__), which is the C-level dict merge the module was written    *)
(* against.  "RecursionError" stands for the error the interpreter raises  *)
(* at its recursion limit (a RuntimeError before Python 3.5).              *)
(***************************************************************************)
EXTENDS Integers, Sequences, FiniteSets, TLC

VARIABLES heap,     \* object id -> object (OptionsDict, plain dict) or Free
          pc,       \* the operation that ran last / the position inside a loop
          args,     \* the arguments of that operation
          ret,      \* its outcome: a returned value or a raised exception
          snap,     \* the heap as it was when the operation was called
          locals,   \* local variables of an operation that runs step by step
          nops      \* how many operations have been called

vars == <<heap, pc, args, ret, snap, locals, nops>>

---------------------------------------------------------------------------
(* Bounds of the model *)

MaxObjs == 4          \* heap slots
MaxOps == 1           \* operations of the dict algebra per behaviour
RecursionLimit == 5   \* interpreter frames before RecursionError
MaxPieces == 2        \* pieces a template text is put together from
MaxLoops == 2         \* largest explicit max_loops argument
MaxElems == 2         \* length of the elements argument of create_sequence

---------------------------------------------------------------------------
(* Python values *)

IntVal(n) == [t |-> "int", n |-> n]
StrVal(s) == [t |-> "str", s |-> s]
NoneVal == [t |-> "none"]
RefVal(id) == [t |-> "ref", id |-> id]
ListVal(l) == [t |-> "list", l |-> l]

\* a plain function object (types.FunctionType); body says what it computes
Lambda(body) == [t |-> "function", body |-> body]
ConstFn(v) == Lambda([op |-> "const", ret |-> v])          \* lambda d: v
GetFn(k) == Lambda([op |-> "getitem", key |-> k])          \* lambda d: d[k]
AddFn == Lambda([op |-> "add", default |-> 1])             \* lambda a, b=1: a + b
NameFn(p) == Lambda([op |-> "name", prefix |-> p])         \* lambda x: p + str(x)

EmptyMap == [k \in {} |-> NoneVal]
HasKey(m, k) == \E x \in DOMAIN m : x = k

Digits == <<"0", "1", "2", "3", "4", "5", "6", "7", "8", "9">>

RECURSIVE IntStr(_)
IntStr(n) == IF n < 10 THEN <<Digits[n + 1]>>
             ELSE IntStr(n \div 10) \o <<Digits[(n % 10) + 1]>>

\* str(v) of a value that is no container object
PyStr(v) ==
    CASE v.t = "str" -> v.s
      [] v.t = "int" -> IntStr(v.n)
      [] v.t = "none" -> <<"N", "o", "n", "e">>
      [] v.t = "function" -> <<"<", "f", ">">>
      [] OTHER -> <<"<", "o", ">">>

\* callable(v) in place of isinstance(v, FunctionType)
is_callable(v) == v.t \in {"function", "CallableEntry"}

\* isinstance(v, FunctionType)
IsFunctionType(v) == v.t = "function"
IsCallableEntry(v) == v.t = "CallableEntry"

\* bool(v) of a value that is no container object
Truthy(v) ==
    CASE v.t = "int" -> v.n # 0
      [] v.t = "str" -> Len(v.s) > 0
      [] v.t = "none" -> FALSE
      [] OTHER -> TRUE

Return(v) == [exc |-> "", val |-> v, is |-> ""]
ReturnSame(v, which) == [exc |-> "", val |-> v, is |-> which]
Raise(e) == [exc |-> e, val |-> NoneVal, is |-> ""]

---------------------------------------------------------------------------
(* Module settings *)

name_separator == <<"_">>
template_expansion_max_loops == 5

---------------------------------------------------------------------------
(* Objects: records with a cls field; isinstance(x, dict) is IsDict(x) *)

Free == [cls |-> "free"]
PlainDict(items) == [cls |-> "dict", name |-> <<>>, items |-> items]
IsDict(x) == HasKey(x, "cls") /\ x.cls \in {"dict", "OptionsDict"}
IsOptionsDict(x) == HasKey(x, "cls") /\ x.cls = "OptionsDict"

\* bool(x) of an argument: a dict is true when it has entries
ArgTruthy(x) == IF IsDict(x) THEN DOMAIN x.items # {} ELSE Truthy(x)

\* the keys of the model, in a fixed order
KeyList == << <<"f">>, <<"g">> >>
Keys == {KeyList[i] : i \in 1..Len(KeyList)}

\* dict.update(other) / dict.__init__(entries): the stored values of other
\* overlaid on those of items
DictUpdate(items, other) ==
    [k \in DOMAIN items \cup DOMAIN other |->
        IF HasKey(other, k) THEN other[k] ELSE items[k]]

RECURSIVE ReprKeys(_, _)
ReprKeys(items, i) ==
    IF i > Len(KeyList) THEN <<>>
    ELSE (IF HasKey(items, KeyList[i]) THEN KeyList[i] ELSE <<>>)
         \o ReprKeys(items, i + 1)

\* OptionsDict.__init__(self, name, entries)
__init__(name, entries) ==
    IF Truthy(name) /\ name.t # "str" THEN Raise("OptionsDictException")
    ELSE IF ~IsDict(entries) THEN Raise("OptionsDictException")
    ELSE Return([cls |-> "OptionsDict",
                 name |-> IF Truthy(name) THEN name.s ELSE <<>>,
                 items |-> DictUpdate(EmptyMap, entries.items)])

\* str(x) of an argument: the name of an OptionsDict, the (abridged) repr
\* of a plain dict, PyStr of anything else
__str__(self) ==
    IF IsOptionsDict(self) THEN self.name
    ELSE IF IsDict(self) THEN <<"{">> \o ReprKeys(self.items, 1) \o <<"}">>
    ELSE PyStr(self)

\* __add__ with the separator inserted even next to an empty name
add_always_joins(self, other) ==
    LET new_name == __str__(self) \o name_separator \o __str__(other)
        result == __init__(StrVal(new_name), self).val
    IN  IF ~IsDict(other) THEN Raise("TypeError")
        ELSE Return([result EXCEPT !.items = DictUpdate(result.items, other.items)])

\* __add__ with self's entries laid over other's
add_self_wins(self, other) ==
    LET names == <<__str__(self), __str__(other)>>
        new_name == IF \A i \in 1..2 : Len(names[i]) > 0
                    THEN names[1] \o name_separator \o names[2]
                    ELSE names[1] \o names[2]
        result == __init__(StrVal(new_name), self).val
    IN  IF ~IsDict(other) THEN Raise("TypeError")
        ELSE Return([result EXCEPT !.items = DictUpdate(other.items, result.items)])

\* OptionsDict.__add__(self, other): a new OptionsDict
__add__(self, other) ==
    LET names == <<__str__(self), __str__(other)>>
        new_name == IF \A i \in 1..2 : Len(names[i]) > 0
                    THEN names[1] \o name_separator \o names[2]
                    ELSE names[1] \o names[2]
        result == __init__(StrVal(new_name), self).val
    IN  IF ~IsDict(other) THEN Raise("TypeError")
        ELSE Return([result EXCEPT !.items = DictUpdate(result.items, other.items)])

\* OptionsDict.__radd__(self, other)
__radd__(self, other) ==
    IF ~ArgTruthy(other) THEN ReturnSame(self, "self")
    ELSE __add__(self, other)

\* CallableEntry(function)
CallableEntry(function) == [t |-> "CallableEntry", function |-> function]

RECURSIVE __getitem__(_, _, _), CallFunction(_, _, _, _)

\* f(*args, **kwargs) with `depth` nested calls already on the interpreter stack
CallFunction(f, a, kw, depth) ==
    IF depth >= RecursionLimit THEN Raise("RecursionError")
    ELSE IF IsCallableEntry(f) THEN CallFunction(f.function, a, kw, depth + 1)
    ELSE CASE f.body.op = "const" -> Return(f.body.ret)
           [] f.body.op = "getitem" ->
                IF IsOptionsDict(a[1]) THEN __getitem__(a[1], f.body.key, depth + 1)
                ELSE Raise("TypeError")
           [] f.body.op = "add" ->
                LET x == a[1]
                    y == IF Len(a) >= 2 THEN a[2]
                         ELSE IF HasKey(kw, "b") THEN kw.b
                         ELSE IntVal(f.body.default)
                IN  IF HasKey(x, "t") /\ x.t = "int" /\ y.t = "int"
                    THEN Return(IntVal(x.n + y.n))
                    ELSE Raise("TypeError")
           [] f.body.op = "name" -> Return(StrVal(f.body.prefix \o __str__(a[1])))

\* __getitem__ as dict has it: the stored value, never invoked
getitem_stored_value(self, key, depth) ==
    IF ~HasKey(self.items, key) THEN Raise("KeyError")
    ELSE Return(self.items[key])

\* OptionsDict.__getitem__(self, key)
__getitem__(self, key, depth) ==
    IF depth >= RecursionLimit THEN Raise("RecursionError")
    ELSE IF ~HasKey(self.items, key) THEN Raise("KeyError")
    ELSE LET value == self.items[key]
         IN  IF IsFunctionType(value)
             THEN CallFunction(value, <<self>>, EmptyMap, depth + 1)
             ELSE Return(value)

\* CallableEntry.__call__(self, *args, **kwargs)
__call__(self, a, kw) == CallFunction(self.function, a, kw, 0)

---------------------------------------------------------------------------
(* string.Template.safe_substitute and OptionsDict.expand_template *)

Letters == {"a", "b", "c", "d", "e", "f", "g", "h", "i", "j", "k", "l", "m",
            "n", "o", "p", "q", "r", "s", "t", "u", "v", "w", "x", "y", "z",
            "A", "B", "C", "D", "E", "F", "G", "H", "I", "J", "K", "L", "M",
            "N", "O", "P", "Q", "R", "S", "T", "U", "V", "W", "X", "Y", "Z"}
IsIdStart(c) == c = "_" \/ c \in Letters
IsIdChar(c) == IsIdStart(c) \/ c \in {Digits[i] : i \in 1..Len(Digits)}

Contains(s, c) == \E i \in 1..Len(s) : s[i] = c

\* the index after the longest run of identifier characters starting at i
RECURSIVE IdentEnd(_, _)
IdentEnd(s, i) == IF i <= Len(s) /\ IsIdChar(s[i]) THEN IdentEnd(s, i + 1) ELSE i

\* the replacement of one named token: str(mapping[named]), or the token
\* itself when the lookup raises KeyError; any other exception propagates
Convert(self, named, token) ==
    LET r == __getitem__(self, named, 0)
    IN  IF r.exc = "KeyError" THEN Return(token)
        ELSE IF r.exc # "" THEN r
        ELSE Return(__str__(r.val))

\* Template(s).safe_substitute(self) from position i on, out being the
\* text produced so far: `$$` gives `$`, `$identifier` and `${identifier}`
\* are converted, any other `$` stays
RECURSIVE Substitute(_, _, _, _)
Substitute(self, s, i, out) ==
    IF i > Len(s) THEN Return(out)
    ELSE
    LET escaped == i < Len(s) /\ s[i + 1] = "$"
        named == i < Len(s) /\ IsIdStart(s[i + 1])
        e == IdentEnd(s, i + 1)
        b == IdentEnd(s, i + 2)
        braced == /\ i + 1 < Len(s) /\ s[i + 1] = "{" /\ IsIdStart(s[i + 2])
                  /\ b <= Len(s) /\ s[b] = "}"
        \* the piece this position yields and the position scanning resumes at
        piece == IF s[i] # "$" THEN Return(<<s[i]>>)
                 ELSE IF escaped THEN Return(<<"$">>)
                 ELSE IF named THEN Convert(self, SubSeq(s, i + 1, e - 1), SubSeq(s, i, e - 1))
                 ELSE IF braced THEN Convert(self, SubSeq(s, i + 2, b - 1), SubSeq(s, i, b))
                 ELSE Return(<<"$">>)
        resume == IF s[i] # "$" THEN i + 1
                  ELSE IF escaped THEN i + 2
                  ELSE IF named THEN e
                  ELSE IF braced THEN b + 1
                  ELSE i + 1
    IN  IF piece.exc # "" THEN piece
        ELSE Substitute(self, s, resume, out \o piece.val)

safe_substitute(self, s) == Substitute(self, s, 1, <<>>)

\* the loop condition without the pass counter
continues_while_dollar(buffer_string, n, max_loops) == Contains(buffer_string, "$")

\* the loop condition of expand_template
expand_template_continues(buffer_string, n, max_loops) ==
    Contains(buffer_string, "$") /\ n < max_loops

---------------------------------------------------------------------------
(* create_sequence *)

\* fmt.format(el) for a format string with at most one `{}` field
RECURSIVE Format(_, _, _)
Format(fmt, el, i) ==
    IF i > Len(fmt) THEN <<>>
    ELSE IF i < Len(fmt) /\ fmt[i] = "{" /\ fmt[i + 1] = "}"
         THEN __str__(el) \o Format(fmt, el, i + 2)
    ELSE <<fmt[i]>> \o Format(fmt, el, i + 1)

\* copy(el) of an OptionsDict: a new object with el's name and stored values
copy(el) == [cls |-> el.cls, name |-> el.name, items |-> DictUpdate(EmptyMap, el.items)]

\* name_format(el): calling anything but a function raises TypeError
CallNameFormat(name_format, el) ==
    IF IsFunctionType(name_format) THEN CallFunction(name_format, <<el>>, EmptyMap, 0)
    ELSE Raise("TypeError")

\* the loop body naming every new OptionsDict str(el), whatever name_format
sequence_od_named_by_str(el, sequence_key, name_format) ==
    IF IsOptionsDict(el)
    THEN Return([copy(el) EXCEPT !.items =
                    DictUpdate(@, [k \in {sequence_key} |-> StrVal(__str__(el))])])
    ELSE IF name_format.t \notin {"str", "function"} THEN Raise("OptionsDictException")
    ELSE __init__(StrVal(__str__(el)), PlainDict([k \in {sequence_key} |-> el]))

\* the OptionsDict the loop body makes of el, before common_entries
sequence_od(el, sequence_key, name_format) ==
    IF IsOptionsDict(el)
    THEN LET od == copy(el)
         IN  Return([od EXCEPT !.items =
                        DictUpdate(@, [k \in {sequence_key} |-> StrVal(__str__(el))])])
    ELSE LET called == CallNameFormat(name_format, el)
             entries == PlainDict([k \in {sequence_key} |-> el])
         IN  IF called.exc = "" THEN __init__(called.val, entries)
             ELSE IF called.exc # "TypeError" THEN called
             ELSE IF name_format.t = "str"
                  THEN __init__(StrVal(Format(name_format.s, el, 1)), entries)
             ELSE Raise("OptionsDictException")

\* the check made of common_entries inside the loop
common_entries_ok(common_entries) == IsDict(common_entries)

---------------------------------------------------------------------------
(* The heap *)

Oids == 1..MaxObjs
FreeOids == {i \in Oids : heap[i] = Free}
NewOid == CHOOSE i \in FreeOids : \A j \in FreeOids : i <= j
Deref(x) == IF HasKey(x, "t") /\ x.t = "ref" THEN heap[x.id] ELSE x

---------------------------------------------------------------------------
(* Specification of the dict algebra: a + b, x + a, result[k] = v *)

NamesA == {<<>>, <<"a">>}
NamesB == {<<>>, <<"b">>}
ValuesA == {IntVal(1), GetFn(<<"g">>)}
ValuesB == {IntVal(2), CallableEntry(AddFn)}
Maps(V) == UNION {[D -> V] : D \in SUBSET Keys}

Init ==
    /\ \E na \in NamesA, nb \in NamesB, ia \in Maps(ValuesA), ib \in Maps(ValuesB),
          ip \in Maps({IntVal(3)}) :
          heap = [i \in Oids |->
                    CASE i = 1 -> __init__(StrVal(na), PlainDict(ia)).val
                      [] i = 2 -> __init__(StrVal(nb), PlainDict(ib)).val
                      [] i = 3 -> PlainDict(ip)
                      [] OTHER -> Free]
    /\ pc = "start"
    /\ args = <<>>
    /\ ret = Return(NoneVal)
    /\ snap = heap
    /\ locals = <<>>
    /\ nops = 0

OptionsDictOids == {i \in Oids : IsOptionsDict(heap[i])}
DictOids == {i \in Oids : IsDict(heap[i])}

\* stores the outcome r of `self.<op>(other)`: a fresh object gets a new
\* heap slot, a returned operand keeps its identity
Finish(op, a, r) ==
    /\ pc' = op
    /\ args' = a
    /\ snap' = heap
    /\ nops' = nops + 1
    /\ locals' = locals
    /\ IF r.exc # "" THEN /\ ret' = r
                          /\ heap' = heap
       ELSE IF r.is = "self" THEN /\ ret' = Return(a[1])
                                  /\ heap' = heap
       ELSE /\ ret' = Return(RefVal(NewOid))
            /\ heap' = [heap EXCEPT ![NewOid] = r.val]

\* result = a + b with a an OptionsDict
CallAdd ==
    \E s \in OptionsDictOids, o \in DictOids :
        /\ nops < MaxOps
        /\ FreeOids # {}
        /\ Finish("__add__", <<RefVal(s), RefVal(o)>>, __add__(heap[s], heap[o]))

\* result = x + a with x no OptionsDict: the start value 0 of sum(), or a
\* plain dict
CallRadd ==
    \E s \in OptionsDictOids,
       o \in {IntVal(0)} \cup {RefVal(i) : i \in DictOids \ OptionsDictOids} :
        /\ nops < MaxOps
        /\ FreeOids # {}
        /\ Finish("__radd__", <<RefVal(s), o>>, __radd__(heap[s], Deref(o)))

\* result[k] = v on the result of the last combination
SetItem ==
    \E k \in Keys, v \in {IntVal(7)} :
        /\ pc \in {"__add__", "__radd__"}
        /\ ret.exc = ""
        /\ heap' = [heap EXCEPT ![ret.val.id].items = DictUpdate(@, [x \in {k} |-> v])]
        /\ pc' = "__setitem__"
        /\ UNCHANGED <<args, ret, snap, locals, nops>>

Next == CallAdd \/ CallRadd \/ SetItem

Spec == Init /\ [][Next]_vars

---------------------------------------------------------------------------
(* Specification of lookup: d[key], and calling a looked-up CallableEntry *)

Literal == IntVal(1)
LookupValues ==
    {Literal, ConstFn(Literal), ConstFn(ConstFn(Literal)),
     ConstFn(ConstFn(ConstFn(Literal))),
     GetFn(<<"f">>), GetFn(<<"g">>), CallableEntry(AddFn)}

InitLookup ==
    /\ \E items \in Maps(LookupValues) :
          heap = [i \in Oids |->
                    IF i = 1 THEN __init__(StrVal(<<"d">>), PlainDict(items)).val
                    ELSE Free]
    /\ pc = "start"
    /\ args = <<>>
    /\ ret = Return(NoneVal)
    /\ snap = heap
    /\ locals = <<>>
    /\ nops = 0

\* value = d[key]
CallGetitem ==
    \E key \in Keys :
        /\ pc' = "__getitem__"
        /\ args' = <<RefVal(1), key>>
        /\ ret' = __getitem__(heap[1], key, 0)
        /\ snap' = heap
        /\ UNCHANGED <<heap, locals, nops>>

\* value(a), value(a, b) or value(a, b=b) on a looked-up CallableEntry
CallEntry ==
    \E a \in {IntVal(1), IntVal(2)}, b \in {IntVal(2), IntVal(5)},
       form \in {"a", "a,b", "a,b=b"} :
        /\ pc = "__getitem__"
        /\ ret.exc = ""
        /\ IsCallableEntry(ret.val)
        /\ LET pos == IF form = "a,b" THEN <<a, b>> ELSE <<a>>
               kw == IF form = "a,b=b" THEN [b |-> b] ELSE EmptyMap
           IN  /\ args' = <<ret.val, pos, kw>>
               /\ ret' = __call__(ret.val, pos, kw)
        /\ pc' = "__call__"
        /\ snap' = heap
        /\ UNCHANGED <<heap, locals, nops>>

NextLookup == CallGetitem \/ CallEntry

SpecLookup == InitLookup /\ [][NextLookup]_vars

\* the value a chain of functions returning functions ends in
RECURSIVE ChainEnd(_)
ChainEnd(v) ==
    IF IsFunctionType(v) /\ v.body.op = "const" THEN ChainEnd(v.body.ret) ELSE v

\* following lambda d: d[k] from key never reaches anything else
RECURSIVE OnCycle(_, _, _)
OnCycle(items, key, n) ==
    IF n = 0 THEN TRUE
    ELSE /\ HasKey(items, key)
         /\ IsFunctionType(items[key])
         /\ items[key].body.op = "getitem"
         /\ OnCycle(items, items[key].body.key, n - 1)

Stored == snap[1].items[args[2]]

\* what the design's lookup gives for a stored value v: functions are
\* invoked, and their results rechecked, until the value is no function
RECURSIVE Resolved(_, _, _)
Resolved(items, v, fuel) ==
    IF ~IsFunctionType(v) THEN Return(v)
    ELSE IF fuel = 0 THEN Raise("RecursionError")
    ELSE IF v.body.op = "const" THEN Resolved(items, v.body.ret, fuel - 1)
    ELSE IF v.body.op = "getitem" /\ HasKey(items, v.body.key)
         THEN Resolved(items, items[v.body.key], fuel - 1)
    ELSE Raise("KeyError")

---------------------------------------------------------------------------
(* Specification of expand_template: the while loop, one pass per step *)

Pieces == { <<"$", "f">>, <<"$", "g">>, <<"$", "{", "f", "}">>, <<"$", "$">>,
            <<"$">>, <<"-">> }
RECURSIVE Concat(_, _)
Concat(ps, i) == IF i > Len(ps) THEN <<>> ELSE ps[i] \o Concat(ps, i + 1)
Texts == {Concat(ps, 1) : ps \in UNION {[1..n -> Pieces] : n \in 0..MaxPieces}}
TemplateValuesF ==
    {StrVal(<<"X">>), StrVal(<<"$", "f">>), StrVal(<<"$", "g">>),
     ConstFn(IntVal(2)), GetFn(<<"f">>)}
TemplateValuesG == {StrVal(<<"f">>), StrVal(<<"$", "{", "f", "}">>)}
TemplateValuesFF == {StrVal(<<"Y">>)}
OneKey(k, V) == {EmptyMap} \cup {[x \in {k} |-> v] : v \in V}
TemplateMaps ==
    {DictUpdate(DictUpdate(mf, mg), mff) :
        mf \in OneKey(<<"f">>, TemplateValuesF),
        mg \in OneKey(<<"g">>, TemplateValuesG),
        mff \in OneKey(<<"f", "f">>, TemplateValuesFF)}

InitTemplate ==
    /\ \E items \in TemplateMaps :
          heap = [i \in Oids |->
                    IF i = 1 THEN __init__(StrVal(<<"d">>), PlainDict(items)).val
                    ELSE Free]
    /\ pc = "start"
    /\ args = <<>>
    /\ ret = Return(NoneVal)
    /\ snap = heap
    /\ locals = <<>>
    /\ nops = 0

\* d.expand_template(text) or d.expand_template(text, max_loops): n = 0
ExpandCall ==
    \E text \in Texts, max_loops \in (0..MaxLoops) \cup {template_expansion_max_loops} :
        /\ pc = "start"
        /\ pc' = "while"
        /\ args' = <<RefVal(1), text, max_loops>>
        /\ locals' = [buffer_string |-> text, n |-> 0, max_loops |-> max_loops]
        /\ snap' = heap
        /\ UNCHANGED <<heap, ret, nops>>

\* one pass of the loop body; an exception of the lookup leaves the call
ExpandPass ==
    /\ pc = "while"
    /\ expand_template_continues(locals.buffer_string, locals.n, locals.max_loops)
    /\ LET r == safe_substitute(heap[1], locals.buffer_string)
       IN  IF r.exc # ""
           THEN /\ pc' = "raised"
                /\ ret' = r
                /\ locals' = locals
           ELSE /\ pc' = "while"
                /\ ret' = ret
                /\ locals' = [locals EXCEPT !.buffer_string = r.val, !.n = @ + 1]
    /\ UNCHANGED <<heap, args, snap, nops>>

\* the loop condition fails: return buffer_string
ExpandReturn ==
    /\ pc = "while"
    /\ ~expand_template_continues(locals.buffer_string, locals.n, locals.max_loops)
    /\ pc' = "returned"
    /\ ret' = Return(StrVal(locals.buffer_string))
    /\ UNCHANGED <<heap, args, snap, locals, nops>>

NextTemplate == ExpandCall \/ ExpandPass \/ ExpandReturn

SpecTemplate == InitTemplate /\ [][NextTemplate]_vars

---------------------------------------------------------------------------
(* Specification of create_sequence: the for loop, one element per step *)

ElementValues == {RefVal(1), IntVal(2), StrVal(<<"A">>)}
ElementLists == UNION {[1..n -> ElementValues] : n \in 0..MaxElems}
CommonEntries ==
    {PlainDict(EmptyMap), PlainDict([k \in {<<"f">>} |-> IntVal(5)]),
     PlainDict([k \in {<<"g">>} |-> IntVal(5)]), StrVal(<<"f", "o", "o">>)}
NameFormats == {StrVal(<<"{", "}">>), StrVal(<<"A", "{", "}">>), NameFn(<<"n">>), NoneVal}

InitSequence ==
    /\ \E items \in Maps({StrVal(<<"b", "a", "r">>)}) :
          heap = [i \in Oids |->
                    IF i = 1 THEN __init__(StrVal(<<"s">>), PlainDict(items)).val
                    ELSE Free]
    /\ pc = "start"
    /\ args = <<>>
    /\ ret = Return(NoneVal)
    /\ snap = heap
    /\ locals = <<>>
    /\ nops = 0

\* create_sequence(sequence_key, elements, common_entries, name_format)
SeqCall ==
    \E sequence_key \in Keys, elements \in ElementLists,
       common_entries \in CommonEntries, name_format \in NameFormats :
        /\ pc = "start"
        /\ pc' = "for"
        /\ args' = [sequence_key |-> sequence_key, elements |-> elements,
                    common_entries |-> common_entries, name_format |-> name_format]
        /\ locals' = [i |-> 1, optionsdict_list |-> <<>>]
        /\ snap' = heap
        /\ UNCHANGED <<heap, ret, nops>>

\* the loop body for the next element
SeqElement ==
    /\ pc = "for"
    /\ locals.i <= Len(args.elements)
    /\ FreeOids # {}
    /\ LET el == Deref(args.elements[locals.i])
           od == sequence_od(el, args.sequence_key, args.name_format)
       IN  IF od.exc # ""
           THEN /\ pc' = "raised"
                /\ ret' = od
                /\ UNCHANGED <<heap, locals>>
           ELSE IF ~common_entries_ok(args.common_entries)
           THEN /\ pc' = "raised"
                /\ ret' = Raise("OptionsDictException")
                /\ UNCHANGED <<heap, locals>>
           ELSE /\ pc' = "for"
                /\ ret' = ret
                /\ heap' = [heap EXCEPT ![NewOid] =
                              [od.val EXCEPT !.items =
                                  DictUpdate(@, args.common_entries.items)]]
                /\ locals' = [i |-> locals.i + 1,
                              optionsdict_list |->
                                  Append(locals.optionsdict_list, RefVal(NewOid))]
    /\ UNCHANGED <<args, snap, nops>>

\* the loop is over: return optionsdict_list
SeqReturn ==
    /\ pc = "for"
    /\ locals.i > Len(args.elements)
    /\ pc' = "returned"
    /\ ret' = Return(ListVal(locals.optionsdict_list))
    /\ UNCHANGED <<heap, args, snap, locals, nops>>

NextSequence == SeqCall \/ SeqElement \/ SeqReturn

SpecSequence == InitSequence /\ [][NextSequence]_vars

\* the name the claim expects of an element that is no OptionsDict
ExpectedName(name_format, el) ==
    LET text == IF el.t = "int" THEN <<Digits[el.n + 1]>> ELSE el.s
    IN  CASE name_format = StrVal(<<"{", "}">>) -> text
          [] name_format = StrVal(<<"A", "{", "}">>) -> <<"A">> \o text
          [] name_format = NameFn(<<"n">>) -> <<"n">> \o text

\* create_sequence returned and common_entries does not hold sequence_key
SequenceReturned ==
    /\ pc = "returned"
    /\ IsDict(args.common_entries)
    /\ ~HasKey(args.common_entries.items, args.sequence_key)

\* one output per element, in order; a new OptionsDict named by name_format
\* with the element under sequence_key for an element that is no
\* OptionsDict; for one that is: another object of the same name, with
\* str(element) under sequence_key, the element itself unchanged
SequenceShape(l) ==
    /\ Len(l) = Len(args.elements)
    /\ \A i \in 1..Len(l) :
          LET out == heap[l[i].id]
              el == args.elements[i]
          IN  IF el.t = "ref"
              THEN /\ l[i].id # el.id
                   /\ heap[el.id] = snap[el.id]
                   /\ out.name = snap[el.id].name
                   /\ out.items[args.sequence_key] = StrVal(snap[el.id].name)
              ELSE /\ IsOptionsDict(out)
                   /\ out.name = ExpectedName(args.name_format, el)
                   /\ out.items[args.sequence_key] = el

---------------------------------------------------------------------------
(* Specification of cross and collapse.  The tree classes are not part of  *)
(* optionsdict.py; they are modelled from the design: an axis is the       *)
(* sequence create_sequence makes of its elements, cross pairs two axes,   *)
(* and collapse walks the pairs, left axis outermost, combining each pair  *)
(* with OptionsDict.__add__.                                               *)

RECURSIVE Axis(_, _, _)
Axis(sequence_key, elements, i) ==
    IF i > Len(elements) THEN <<>>
    ELSE <<sequence_od(elements[i], sequence_key, StrVal(<<"{", "}">>)).val>>
         \o Axis(sequence_key, elements, i + 1)

cross(left, right) == [op |-> "cross", left |-> left, right |-> right]

\* the leaf collapse makes of the pair (i, j)
collapse_leaf(tree, i, j) == __add__(tree.left[i], tree.right[j]).val

AxisElements == {IntVal(1), StrVal(<<"a">>), StrVal(<<>>)}
AxisLists == UNION {[1..n -> AxisElements] : n \in 1..MaxElems}

InitTree ==
    /\ heap = [i \in Oids |-> Free]
    /\ pc = "start"
    /\ args = <<>>
    /\ ret = Return(NoneVal)
    /\ snap = heap
    /\ locals = <<>>
    /\ nops = 0

\* tree = Axis('f', A) * Axis(key, B); tree.collapse()
CollapseCall ==
    \E A \in AxisLists, B \in AxisLists, key \in Keys :
        /\ pc = "start"
        /\ pc' = "collapse"
        /\ args' = cross(Axis(<<"f">>, A, 1), Axis(key, B, 1))
        /\ locals' = [i |-> 1, j |-> 1, leaves |-> <<>>]
        /\ UNCHANGED <<heap, ret, snap, nops>>

\* the next pair: the right axis is the inner loop
CollapsePair ==
    /\ pc = "collapse"
    /\ locals.i <= Len(args.left)
    /\ locals' = [i |-> IF locals.j = Len(args.right) THEN locals.i + 1 ELSE locals.i,
                  j |-> IF locals.j = Len(args.right) THEN 1 ELSE locals.j + 1,
                  leaves |-> Append(locals.leaves, collapse_leaf(args, locals.i, locals.j))]
    /\ UNCHANGED <<heap, pc, args, ret, snap, nops>>

CollapseReturn ==
    /\ pc = "collapse"
    /\ locals.i > Len(args.left)
    /\ pc' = "collapsed"
    /\ ret' = Return(ListVal(locals.leaves))
    /\ UNCHANGED <<heap, args, snap, locals, nops>>

NextTree == CollapseCall \/ CollapsePair \/ CollapseReturn

SpecTree == InitTree /\ [][NextTree]_vars

---------------------------------------------------------------------------
(* Specification of freeze.  freeze is not part of optionsdict.py; it is   *)
(* modelled from the design: every entry is looked up (__getitem__) and    *)
(* the value stored back; with clean, an entry whose value is still no     *)
(* plain value (a function, a CallableEntry) is dropped.                   *)

IsPlain(v) == ~IsFunctionType(v) /\ ~IsCallableEntry(v)
DictRemove(items, key) == [k \in DOMAIN items \ {key} |-> items[k]]

FreezeValues ==
    {Literal, ConstFn(Literal), ConstFn(ConstFn(Literal)), GetFn(<<"g">>),
     GetFn(<<"f">>), CallableEntry(AddFn)}

InitFreeze ==
    /\ \E items \in Maps(FreezeValues) :
          heap = [i \in Oids |->
                    IF i = 1 THEN __init__(StrVal(<<"d">>), PlainDict(items)).val
                    ELSE Free]
    /\ pc = "start"
    /\ args = <<>>
    /\ ret = Return(NoneVal)
    /\ snap = heap
    /\ locals = <<>>
    /\ nops = 0

\* d.freeze(clean)
FreezeCall ==
    \E clean \in BOOLEAN :
        /\ pc = "start"
        /\ pc' = "freeze"
        /\ args' = <<RefVal(1), clean>>
        /\ locals' = [todo |-> DOMAIN heap[1].items]
        /\ snap' = heap
        /\ UNCHANGED <<heap, ret, nops>>

\* one entry: d[key] = d[key], dropped when clean and still not plain
FreezeEntry ==
    /\ pc = "freeze"
    /\ \E key \in locals.todo :
        /\ LET r == __getitem__(heap[1], key, 0)
           IN  IF r.exc # ""
               THEN /\ pc' = "raised"
                    /\ ret' = r
                    /\ UNCHANGED <<heap, locals>>
               ELSE /\ pc' = pc
                    /\ ret' = ret
                    /\ locals' = [todo |-> locals.todo \ {key}]
                    /\ heap' = [heap EXCEPT ![1].items =
                                  IF args[2] /\ ~IsPlain(r.val)
                                  THEN DictRemove(heap[1].items, key)
                                  ELSE DictUpdate(heap[1].items, [k \in {key} |-> r.val])]
        /\ UNCHANGED <<args, snap, nops>>

FreezeReturn ==
    /\ pc = "freeze"
    /\ locals.todo = {}
    /\ pc' = "frozen"
    /\ ret' = Return(NoneVal)
    /\ UNCHANGED <<heap, args, snap, locals, nops>>

\* d[key] after freeze
FrozenGetitem ==
    \E key \in Keys :
        /\ pc \in {"frozen", "frozen lookup"}
        /\ pc' = "frozen lookup"
        /\ locals' = [todo |-> {}, key |-> key]
        /\ ret' = __getitem__(heap[1], key, 0)
        /\ UNCHANGED <<heap, args, snap, nops>>

NextFreeze == FreezeCall \/ FreezeEntry \/ FreezeReturn \/ FrozenGetitem

SpecFreeze == InitFreeze /\ [][NextFreeze]_vars

(* C1: a + b of two OptionsDicts is named str(a), str(b) joined by the     *)
(* separator when both names are non-empty and by the non-empty name (or   *)
(* the empty one) otherwise, with no leading or trailing separator, and    *)
(* holds a's entries overlaid by b's, b winning on every common key.       *)
C1_CombineNameAndEntries ==
    (pc = "__add__" /\ IsOptionsDict(snap[args[2].id])) =>
        LET a == snap[args[1].id]
            b == snap[args[2].id]
            r == heap[ret.val.id]
        IN  /\ ret.exc = ""
            /\ r.name = (IF a.name # <<>> /\ b.name # <<>>
                         THEN a.name \o <<"_">> \o b.name
                         ELSE IF a.name # <<>> THEN a.name ELSE b.name)
            /\ (r.name # <<>> => Head(r.name) # "_" /\ r.name[Len(r.name)] # "_")
            /\ DOMAIN r.items = DOMAIN a.items \cup DOMAIN b.items
            /\ \A k \in DOMAIN r.items :
                  r.items[k] = IF HasKey(b.items, k) THEN b.items[k] ELSE a.items[k]

C1_Witness ==
    /\ pc = "__add__"
    /\ args[1].id = 1 /\ args[2].id = 2
    /\ snap[1].name # <<>> /\ snap[2].name # <<>>
    /\ \E k \in DOMAIN snap[1].items \cap DOMAIN snap[2].items :
          /\ snap[1].items[k] # snap[2].items[k]
          /\ heap[ret.val.id].items[k] = snap[2].items[k]

(* C2: every + combination with an OptionsDict, direct or reflected,       *)
(* returns an object that is none of its operands and leaves each          *)
(* operand's name and entries as they were, also when the result is        *)
(* assigned to afterwards.                                                 *)
C2_CombinationReturnsNewInstance ==
    (pc \in {"__add__", "__radd__", "__setitem__"} /\ ret.exc = "") =>
        \A i \in 1..2 :
            args[i].t = "ref" =>
                /\ ret.val.id # args[i].id
                /\ heap[args[i].id] = snap[args[i].id]

(* C3: lookup of a dynamic entry rechecks what the function returned and   *)
(* repeats until the value is no function: a chain f1 -> f2 -> ... -> v    *)
(* looks up as v, and lookup never returns a plain function.               *)
C3_LookupResolvesChains ==
    (pc = "__getitem__" /\ ret.exc = "") =>
        /\ ~IsFunctionType(ret.val)
        /\ (IsFunctionType(Stored) /\ Stored.body.op = "const")
               => ret.val = ChainEnd(Stored)

C5_CallableEntryReturnedUnevaluated ==
    /\ (pc = "__getitem__" /\ HasKey(snap[1].items, args[2]) /\ IsCallableEntry(Stored))
           => ret = Return(Stored)
    /\ pc = "__call__" =>
           LET pos == args[2]
               b == IF Len(pos) = 2 THEN pos[2].n
                    ELSE IF HasKey(args[3], "b") THEN args[3].b.n ELSE 1
           IN  ret = Return(IntVal(pos[1].n + b))

C5_Witness ==
    /\ pc = "__call__"
    /\ HasKey(args[3], "b")
    /\ ret = Return(IntVal(7))

\* the named and braced tokens of s from position i on, as the scanner
\* reads them: [key, text]
RECURSIVE Tokens(_, _)
Tokens(s, i) ==
    IF i > Len(s) THEN {}
    ELSE IF s[i] # "$" THEN Tokens(s, i + 1)
    ELSE IF i < Len(s) /\ s[i + 1] = "$" THEN Tokens(s, i + 2)
    ELSE IF i < Len(s) /\ IsIdStart(s[i + 1])
         THEN LET e == IdentEnd(s, i + 1)
              IN  {[key |-> SubSeq(s, i + 1, e - 1), text |-> SubSeq(s, i, e - 1)]}
                  \cup Tokens(s, e)
    ELSE IF /\ i + 1 < Len(s) /\ s[i + 1] = "{" /\ IsIdStart(s[i + 2])
            /\ IdentEnd(s, i + 2) <= Len(s) /\ s[IdentEnd(s, i + 2)] = "}"
         THEN LET e == IdentEnd(s, i + 2)
              IN  {[key |-> SubSeq(s, i + 2, e - 1), text |-> SubSeq(s, i, e)]}
                  \cup Tokens(s, e + 1)
    ELSE Tokens(s, i + 1)

IsSubSeq(t, s) == \E k \in 0..(Len(s) - Len(t)) : SubSeq(s, k + 1, k + Len(t)) = t
HasEscape(s) == \E i \in 1..(Len(s) - 1) : s[i] = "$" /\ s[i + 1] = "$"

\* what C6 says of the passes: never more than max_loops, the loop ends
\* with no `$` left or with max_loops passes run, and max_loops = 0
\* returns the text
PassesBounded ==
    /\ pc \in {"while", "raised", "returned"} => locals.n <= locals.max_loops
    /\ pc = "returned" =>
          /\ ~Contains(ret.val.s, "$") \/ locals.n = locals.max_loops
          /\ locals.max_loops = 0 => ret.val.s = args[2]

(* C6 as stated: expand_template runs at most max_loops passes and stops   *)
(* when no `$` is left or max_loops passes have run; max_loops = 0 returns *)
(* the text unchanged; every token whose key has no entry is found         *)
(* verbatim in the returned text.                                          *)
C6_MissingTokensInReturnedText ==
    /\ PassesBounded
    /\ pc = "returned" =>
          \A tok \in Tokens(args[2], 1) :
              ~HasKey(heap[1].items, tok.key) => IsSubSeq(tok.text, ret.val.s)

(* C6 amended: the same bound on the passes; a token whose key has no      *)
(* entry is left verbatim by the pass that reads it, so that a text whose  *)
(* tokens all name keys without an entry (and that holds no `$$`) is       *)
(* returned unchanged.                                                     *)
C6_ExpandTemplateBounded ==
    /\ PassesBounded
    /\ (/\ pc = "returned"
        /\ ~HasEscape(args[2])
        /\ \A tok \in Tokens(args[2], 1) : ~HasKey(heap[1].items, tok.key))
           => ret.val.s = args[2]

C6_Witness ==
    /\ pc = "returned"
    /\ heap[1].items = [k \in {<<"f">>} |-> StrVal(<<"$", "f">>)]
    /\ args[2] = <<"$", "f", "$", "g">>
    /\ locals.n = template_expansion_max_loops
    /\ ret.val.s = args[2]

(* C7 as stated: create_sequence returns one OptionsDict per element, in   *)
(* order; the output for an element that is an OptionsDict is a copy with  *)
(* the element's name and entries plus sequence_key -> str(element), the   *)
(* element itself gaining nothing; the output for any other element is     *)
(* named by name_format and holds the element under sequence_key;          *)
(* provided common_entries does not hold sequence_key.                     *)
C7_SequenceKeepsElementEntries ==
    SequenceReturned =>
        /\ SequenceShape(ret.val.l)
        /\ \A i \in 1..Len(ret.val.l) :
              LET out == heap[ret.val.l[i].id]
                  el == args.elements[i]
              IN  el.t = "ref" =>
                      \A k \in DOMAIN snap[el.id].items \ {args.sequence_key} :
                          out.items[k] = snap[el.id].items[k]

(* C7 amended: as above, but the output's entries are the element's        *)
(* entries (for any other element: none) overlaid by the sequence_key      *)
(* entry and then by common_entries, which wins on every key it holds.     *)
C7_SequenceOverlaysCommonEntries ==
    SequenceReturned =>
        /\ SequenceShape(ret.val.l)
        /\ \A i \in 1..Len(ret.val.l) :
              LET out == heap[ret.val.l[i].id]
                  el == args.elements[i]
                  own == IF el.t = "ref" THEN snap[el.id].items ELSE EmptyMap
                  common == args.common_entries.items
              IN  /\ DOMAIN out.items =
                        DOMAIN own \cup {args.sequence_key} \cup DOMAIN common
                  /\ \A k \in DOMAIN out.items \ {args.sequence_key} :
                        out.items[k] = IF HasKey(common, k) THEN common[k] ELSE own[k]

C7_Witness ==
    /\ SequenceReturned
    /\ args.elements = <<RefVal(1), IntVal(2)>>
    /\ args.sequence_key = <<"f">>
    /\ args.common_entries.items = [k \in {<<"g">>} |-> IntVal(5)]
    /\ snap[1].items = [k \in Keys |-> StrVal(<<"b", "a", "r">>)]
    /\ heap[ret.val.l[1].id].items[<<"f">>] = StrVal(<<"s">>)
    /\ heap[ret.val.l[2].id].name = <<"A", "2">>

(* C8: create_sequence raises OptionsDictException whenever common_entries *)
(* is no dict, whatever the elements, an empty list included, and returns  *)
(* no list.                                                                *)
C8_BadCommonEntriesRaises ==
    (pc \in {"returned", "raised"} /\ ~IsDict(args.common_entries)) =>
        /\ pc = "raised"
        /\ ret.exc = "OptionsDictException"

====
